---------------------------- MODULE Spec2Model ----------------------------
(***************************************************************************)
(* A model of gammapy/spectrum/utils.py: the LogEnergyAxis class, the      *)
(* log-log trapezoidal integrator _trapz_loglog, integrate_spectrum and    *)
(* calculate_predicted_counts.                                             *)
(*                                                                         *)
(* Numbers.  Real arithmetic is exact: a rational is a pair <<n, d>> with  *)
(* d > 0 in lowest terms.  An energy value is a decimal float              *)
(* [m |-> 1..9, e |-> exponent], i.e. m * 10^e.  log10 is tabulated in     *)
(* thousandths of a decade (LogTab), and 10 ** x is its inverse where the  *)
(* table has one and the symbolic power [pow10 |-> x] elsewhere.           *)
(* The IEEE values nan, +inf and -inf are modelled where numpy produces    *)
(* them.  Floating-point rounding is not modelled.                         *)
(***************************************************************************)
EXTENDS Integers, Sequences, FiniteSets, TLC

VARIABLES axis, axisCall, trapz, integ, npred

vars == <<axis, axisCall, trapz, integ, npred>>

-----------------------------------------------------------------------------
(* Bounds of the model *)

\* longest energy table of a LogEnergyAxis
MaxLen == 4
\* longest array of query energies or pixels passed to an axis method
MaxQuery == 2

-----------------------------------------------------------------------------
(* Exact rational arithmetic *)

RECURSIVE GCD(_, _)
GCD(a, b) == IF b = 0 THEN a ELSE GCD(b, a % b)

Abs(a) == IF a < 0 THEN -a ELSE a

Norm(n, d) ==
    LET s == IF d < 0 THEN -1 ELSE 1
        g == GCD(Abs(n), Abs(d))
    IN  <<(s * n) \div g, (s * d) \div g>>

R(n) == <<n, 1>>
RAdd(a, b) == Norm(a[1] * b[2] + b[1] * a[2], a[2] * b[2])
RSub(a, b) == Norm(a[1] * b[2] - b[1] * a[2], a[2] * b[2])
RMul(a, b) == Norm(a[1] * b[1], a[2] * b[2])
RDiv(a, b) == Norm(a[1] * b[2], a[2] * b[1])
RLess(a, b) == a[1] * b[2] < b[1] * a[2]
RLeq(a, b) == a[1] * b[2] <= b[1] * a[2]

-----------------------------------------------------------------------------
(* Decimal floats, units and astropy Quantity *)

D(m, e) == [m |-> m, e |-> e]

DLess(a, b) == a.e < b.e \/ (a.e = b.e /\ a.m < b.m)
DLeq(a, b) == a.e < b.e \/ (a.e = b.e /\ a.m <= b.m)

Units == {"TeV", "GeV"}

\* decimal exponent of a unit relative to GeV
UnitExp(u) == IF u = "TeV" THEN 3 ELSE 0

\* Quantity.to(unit).value for one value
ToValue(v, from, unit) == D(v.m, v.e + UnitExp(from) - UnitExp(unit))

\* Quantity.to(unit) of an array quantity
To(q, unit) ==
    [value |-> [i \in DOMAIN q.value |-> ToValue(q.value[i], q.unit, unit)],
     unit |-> unit]

\* 1000 * log10(m) for m = 1..9, rounded
LogTab == <<0, 301, 477, 602, 699, 778, 845, 903, 954>>

\* np.log10 of a positive decimal float, in thousandths of a decade
Log10(v) == 1000 * v.e + LogTab[v.m]

\* 10 ** x for x a rational number of thousandths of a decade
Pow10(x) ==
    IF x[2] = 1 /\ \E m \in DOMAIN LogTab : LogTab[m] = x[1] % 1000
    THEN D(CHOOSE m \in DOMAIN LogTab : LogTab[m] = x[1] % 1000, x[1] \div 1000)
    ELSE [pow10 |-> x]

-----------------------------------------------------------------------------
(* numpy helpers *)

\* np.interp's search: the highest index j with xp[j] <= x; 0 when x is below
\* xp[1] and Len(xp) + 1 when x is above the last entry
BinarySearch(x, xp) ==
    IF RLess(R(xp[Len(xp)]), x) THEN Len(xp) + 1
    ELSE IF RLess(x, R(xp[1])) THEN 0
    ELSE CHOOSE j \in 1..Len(xp) :
            /\ RLeq(R(xp[j]), x)
            /\ \A k \in (j + 1)..Len(xp) : RLess(x, R(xp[k]))

\* linear interpolation that extends the first and the last segment outside xp
InterpNoClamp(x, xp, fp) ==
    LET n == Len(xp)
        j0 == BinarySearch(x, xp)
        j == IF n = 1 THEN 1
             ELSE IF j0 = 0 THEN 1 ELSE IF j0 >= n THEN n - 1 ELSE j0
    IN  IF n = 1 \/ xp[j + 1] = xp[j] THEN R(fp[j])
        ELSE RAdd(R(fp[j]),
                  RMul(RDiv(R(fp[j + 1] - fp[j]), R(xp[j + 1] - xp[j])),
                       RSub(x, R(xp[j]))))

\* np.interp(x, xp, fp) for one x: clamped to fp[first] and fp[last] outside xp
Interp(x, xp, fp) ==
    LET n == Len(xp)
        j == BinarySearch(x, xp)
    IN  IF j = 0 THEN R(fp[1])
        ELSE IF j = n + 1 THEN R(fp[n])
        ELSE IF j = n THEN R(fp[j])
        ELSE IF R(xp[j]) = x THEN R(fp[j])
        ELSE RAdd(R(fp[j]),
                  RMul(RDiv(R(fp[j + 1] - fp[j]), R(xp[j + 1] - xp[j])),
                       RSub(x, R(xp[j]))))


-----------------------------------------------------------------------------
(* LogEnergyAxis.  The axis is immutable after construction, so every call  *)
(* is made on the freshly constructed axis; only pix2world may follow a     *)
(* world2pix call, to take its pixels.                                      *)

\* physical energies (written in TeV) the tables and queries are drawn from
EnergyVals == {D(1, 0), D(2, 0), D(4, 0), D(8, 0), D(1, 1), D(1, 2)}
QueryVals == {D(5, -1), D(1, 0), D(3, 0), D(1, 1), D(1, 2), D(2, 2)}
PixVals == {R(-1), R(0), <<1, 2>>, R(1), <<3, 2>>, R(MaxLen)}

SeqsUpTo(S, n) == UNION {[1..k -> S] : k \in 1..n}

\* the EnergyArray invariant: strictly positive, monotonically non-decreasing
IsEnergyArray(s) == \A i \in 1..(Len(s) - 1) : DLeq(s[i], s[i + 1])

\* an energy array given in TeV, expressed in unit u
Quantity(value, u) == To([value |-> value, unit |-> "TeV"], u)

Queries ==
    {[shape |-> sh, value |-> q.value, unit |-> q.unit] :
        sh \in {"array"},
        q \in {Quantity(s, u) : s \in SeqsUpTo(QueryVals, MaxQuery), u \in Units}}
    \cup
    {[shape |-> "scalar", value |-> q.value, unit |-> q.unit] :
        q \in {Quantity(<<v>>, u) : v \in QueryVals, u \in Units}}

NoQuery == [shape |-> "none", value |-> <<>>, unit |-> "TeV"]

\* LogEnergyAxis.__init__
LogEnergyAxis(energy) ==
    [energy |-> energy,
     x |-> [i \in DOMAIN energy.value |-> Log10(energy.value[i])],
     pix |-> [i \in DOMAIN energy.value |-> i - 1]]

\* world2pix without the conversion to the axis unit
world2pixNoConvert(self, energy) ==
    LET x == [i \in DOMAIN energy.value |-> Log10(energy.value[i])]
    IN  [i \in DOMAIN x |-> Interp(R(x[i]), self.x, self.pix)]

\* LogEnergyAxis.world2pix: the pixel of every query energy
world2pix(self, energy) ==
    LET x == [i \in DOMAIN energy.value |->
                 Log10(To(energy, self.energy.unit).value[i])]
    IN  [i \in DOMAIN x |-> Interp(R(x[i]), self.x, self.pix)]

\* LogEnergyAxis.pix2world: the energy of every pixel, in the axis unit
pix2world(self, pix) ==
    LET x == [i \in DOMAIN pix |-> Interp(pix[i], self.pix, self.x)]
    IN  [value |-> [i \in DOMAIN x |-> Pow10(x[i])], unit |-> self.energy.unit]

\* LogEnergyAxis.closest_point for a scalar energy: np.argmin returns the
\* first index of the minimum; the query unit is not converted
closest_point(self, energy) ==
    LET x == Log10(energy.value[1])
        dist(i) == Abs(self.x[i] - x)
    IN  (CHOOSE i \in DOMAIN self.x :
            /\ \A k \in DOMAIN self.x : dist(i) <= dist(k)
            /\ \A k \in 1..(i - 1) : dist(k) > dist(i)) - 1

\* np.where(e >= self.energy)[0]: the 0-based indices of the table entries
\* that the energy e (value, unit) reaches
WhereGE(self, v, unit) ==
    {i - 1 : i \in {k \in DOMAIN self.energy.value :
                       DLeq(self.energy.value[k],
                            ToValue(v, unit, self.energy.unit))}}

SetMax(S) == CHOOSE m \in S : \A k \in S : k <= m

\* `energy >= self.energy` broadcasts: a scalar, or an array whose length
\* is 1 or the table's, or any array against a table of length 1
Broadcasts(self, energy) ==
    \/ energy.shape = "scalar"
    \/ Len(energy.value) = 1
    \/ Len(self.energy.value) = 1
    \/ Len(energy.value) = Len(self.energy.value)

\* the indices np.where finds in the broadcast comparison (line 83)
BroadcastWhere(self, energy) ==
    LET n == Len(self.energy.value)
        m == Len(energy.value)
    IN  {k - 1 : k \in {i \in 1..(IF n > m THEN n ELSE m) :
            DLeq(self.energy.value[IF n = 1 THEN 1 ELSE i],
                 ToValue(energy.value[IF m = 1 THEN 1 ELSE i], energy.unit,
                         self.energy.unit))}}

Raise(what) == [outcome |-> what, ret |-> <<>>]
Return(value) == [outcome |-> "return", ret |-> value]

\* LogEnergyAxis.bin_edges
bin_edges(self, energy) ==
    IF Broadcasts(self, energy)
    THEN \* line 83 binds `pix`; line 90 then reads the unbound `pix1`
         IF BroadcastWhere(self, energy) = {} THEN Raise("IndexError")
         ELSE Raise("UnboundLocalError")
    ELSE \* ValueError from the comparison: the loop of lines 86-89
         IF \E ii \in DOMAIN energy.value :
                WhereGE(self, energy.value[ii], energy.unit) = {}
         THEN Raise("IndexError")
         ELSE LET pix1 == [ii \in DOMAIN energy.value |->
                              SetMax(WhereGE(self, energy.value[ii], energy.unit))]
                  pix2 == [ii \in DOMAIN pix1 |-> pix1[ii] + 1]
              IN  IF \E ii \in DOMAIN pix2 : pix2[ii] >= Len(self.energy.value)
                  THEN Raise("IndexError")
                  ELSE Return([pix1 |-> pix1, pix2 |-> pix2,
                               energy1 |-> [ii \in DOMAIN pix1 |->
                                   self.energy.value[pix1[ii] + 1]],
                               energy2 |-> [ii \in DOMAIN pix2 |->
                                   self.energy.value[pix2[ii] + 1]],
                               unit |-> self.energy.unit])

NoAxisCall ==
    [op |-> "none", energy |-> NoQuery, pix |-> <<>>, outcome |-> "none",
     ret |-> <<>>]

AxisInit ==
    /\ \E s \in SeqsUpTo(EnergyVals, MaxLen), u \in Units :
          /\ IsEnergyArray(s)
          /\ axis = LogEnergyAxis(Quantity(s, u))
    /\ axisCall = NoAxisCall

World2Pix ==
    /\ axisCall.op = "none"
    /\ \E energy \in Queries :
        /\ axisCall' = [op |-> "world2pix", energy |-> energy, pix |-> <<>>,
                        outcome |-> "return", ret |-> world2pix(axis, energy)]
        /\ UNCHANGED <<axis, trapz, integ, npred>>

\* pix2world on pixels supplied by the caller
Pix2World ==
    /\ axisCall.op = "none"
    /\ \E pix \in SeqsUpTo(PixVals, MaxQuery) :
        /\ axisCall' = [op |-> "pix2world", energy |-> NoQuery, pix |-> pix,
                        outcome |-> "return", ret |-> pix2world(axis, pix)]
        /\ UNCHANGED <<axis, trapz, integ, npred>>

\* pix2world on the pixels the preceding world2pix call returned
Pix2WorldOfWorld2Pix ==
    /\ axisCall.op = "world2pix"
    /\ axisCall' = [op |-> "pix2world", energy |-> axisCall.energy,
                    pix |-> axisCall.ret, outcome |-> "return",
                    ret |-> pix2world(axis, axisCall.ret)]
    /\ UNCHANGED <<axis, trapz, integ, npred>>

ClosestPoint ==
    /\ axisCall.op = "none"
    /\ \E energy \in Queries :
        /\ energy.shape = "scalar"
        /\ axisCall' = [op |-> "closest_point", energy |-> energy, pix |-> <<>>,
                        outcome |-> "return",
                        ret |-> closest_point(axis, energy)]
        /\ UNCHANGED <<axis, trapz, integ, npred>>

BinEdges ==
    /\ axisCall.op = "none"
    /\ \E energy \in Queries :
        /\ axisCall' = [op |-> "bin_edges", energy |-> energy, pix |-> <<>>,
                        outcome |-> bin_edges(axis, energy).outcome,
                        ret |-> bin_edges(axis, energy).ret]
        /\ UNCHANGED <<axis, trapz, integ, npred>>


-----------------------------------------------------------------------------
(* IEEE values.  An extended number is finite (r + l * ln 2, with r and l  *)
(* rational), an infinity (r is its sign) or nan.  The samples are powers  *)
(* of two or zero, so that every logarithm is a rational multiple of       *)
(* log 2 and every local power-law index is rational.                      *)

Fin(r) == [t |-> "fin", r |-> r, l |-> R(0)]
FinLn2(l) == [t |-> "fin", r |-> R(0), l |-> l]
Inf(s) == [t |-> "inf", r |-> R(s), l |-> R(0)]
NaN == [t |-> "nan", r |-> R(0), l |-> R(0)]

Sgn(a) == IF a.r[1] < 0 THEN -1 ELSE IF a.r[1] > 0 THEN 1 ELSE 0

EAdd(a, b) ==
    IF a.t = "nan" \/ b.t = "nan" THEN NaN
    ELSE IF a.t = "inf" /\ b.t = "inf" THEN (IF a.r = b.r THEN a ELSE NaN)
    ELSE IF a.t = "inf" THEN a
    ELSE IF b.t = "inf" THEN b
    ELSE [t |-> "fin", r |-> RAdd(a.r, b.r), l |-> RAdd(a.l, b.l)]

ENeg(a) == [t |-> a.t, r |-> RSub(R(0), a.r), l |-> RSub(R(0), a.l)]

ESub(a, b) == EAdd(a, ENeg(b))

\* products and quotients of numbers without a logarithmic part
EMul(a, b) ==
    IF a.t = "nan" \/ b.t = "nan" THEN NaN
    ELSE IF a.t = "inf" \/ b.t = "inf"
         THEN (IF Sgn(a) = 0 \/ Sgn(b) = 0 THEN NaN ELSE Inf(Sgn(a) * Sgn(b)))
    ELSE Fin(RMul(a.r, b.r))

\* floating-point division: x/0 is an infinity, 0/0 and inf/inf are nan
EDiv(a, b) ==
    IF a.t = "nan" \/ b.t = "nan" THEN NaN
    ELSE IF b.t = "inf" THEN (IF a.t = "inf" THEN NaN ELSE Fin(R(0)))
    ELSE IF Sgn(b) = 0 THEN (IF Sgn(a) = 0 THEN NaN ELSE Inf(Sgn(a)))
    ELSE IF a.t = "inf" THEN Inf(Sgn(a) * Sgn(b))
    ELSE Fin(RDiv(a.r, b.r))

RECURSIVE Pow2(_)
\* 2 ** j for an integer j
Pow2(j) ==
    IF j = 0 THEN R(1)
    ELSE IF j > 0 THEN RMul(R(2), Pow2(j - 1))
    ELSE RDiv(Pow2(j + 1), R(2))

RECURSIVE Log2(_)
\* the integer j with 2 ** j = q, for q a power of two
Log2(q) ==
    IF q = R(1) THEN 0
    ELSE IF RLess(R(1), q) THEN 1 + Log2(RDiv(q, R(2)))
    ELSE Log2(RMul(q, R(2))) - 1

\* np.log10 of a ratio, in units of log10(2): log10(0) = -inf, no error
NpLog10(q) ==
    IF q.t = "nan" THEN NaN
    ELSE IF q.t = "inf" THEN (IF Sgn(q) > 0 THEN Inf(1) ELSE NaN)
    ELSE IF Sgn(q) = 0 THEN Inf(-1)
    ELSE IF Sgn(q) < 0 THEN NaN
    ELSE Fin(R(Log2(q.r)))

\* np.log of a positive ratio: Log2(q) * ln 2
NpLog(q) == FinLn2(R(Log2(q.r)))

\* base ** b for a positive finite base: pow(1, anything) is 1
EPow(base, b) ==
    IF base.r = R(1) THEN Fin(R(1))
    ELSE IF b.t = "nan" THEN NaN
    ELSE IF b.t = "inf"
         THEN (IF (Sgn(b) > 0) = RLess(R(1), base.r) THEN Inf(1) ELSE Fin(R(0)))
    ELSE Fin(Pow2(RMul(R(Log2(base.r)), b.r)[1]))

\* np.abs(v) > 1e-10: every nonzero rational the model can hold exceeds it
AbsAboveThreshold(v) == v.t = "inf" \/ (v.t = "fin" /\ Sgn(v) # 0)

RECURSIVE ESum(_)
\* np.add.reduce
ESum(s) == IF s = <<>> THEN Fin(R(0)) ELSE EAdd(ESum(SubSeq(s, 1, Len(s) - 1)), s[Len(s)])

-----------------------------------------------------------------------------
(* _trapz_loglog on one-dimensional arrays (axis = -1) *)

\* longest sample array
MaxN == 3

XVals == {R(1), R(2), R(4)}
YVals == {R(0), <<1, 4>>, <<1, 2>>, R(1), R(2), R(4)}

\* the unit a Quantity argument carries; "1." stands for a plain array
XUnits == {"1.", "TeV"}
YUnits == {"1.", "cm-2 s-1 TeV-1"}

IsGrid(x) == \A i \in 1..(Len(x) - 1) : RLeq(x[i], x[i + 1])

\* the segments: y[slice1], y[slice2] pair entry i with entry i + 1
Segments(y) == 1..(Len(y) - 1)

\* line 275: the mask of the degenerate segments
tozero(y, x, i) == y[i] = R(0) \/ y[i + 1] = R(0) \/ x[i] = x[i + 1]

\* line 266, numerator and denominator: log10 of the sample ratios
LogYRatio(y, i) == NpLog10(EDiv(Fin(y[i + 1]), Fin(y[i])))
LogXRatio(x, i) == NpLog10(EDiv(Fin(x[i + 1]), Fin(x[i])))

\* line 266: the local power-law index of segment i
LocalIndex(y, x, i) == EDiv(LogYRatio(y, i), LogXRatio(x, i))

\* the power-law closed form with the index b + 1 dropped from the divisor
PowerLawSegmentNoDivide(y, x, i) ==
    LET b == LocalIndex(y, x, i)
        ratio == EDiv(Fin(x[i + 1]), Fin(x[i]))
    IN  EMul(Fin(y[i]), ESub(EMul(Fin(x[i + 1]), EPow(ratio, b)), Fin(x[i])))

\* lines 271-272: y1 * (x2 * (x2 / x1) ** b - x1) / (b + 1)
PowerLawSegment(y, x, i) ==
    LET b == LocalIndex(y, x, i)
        ratio == EDiv(Fin(x[i + 1]), Fin(x[i]))
    IN  EDiv(EMul(Fin(y[i]),
                  ESub(EMul(Fin(x[i + 1]), EPow(ratio, b)), Fin(x[i]))),
             EAdd(b, Fin(R(1))))

\* line 273: x1 * y1 * log(x2 / x1)
LogSegment(y, x, i) ==
    FinLn2(RMul(RMul(x[i], y[i]),
                NpLog(EDiv(Fin(x[i + 1]), Fin(x[i]))).l))

\* lines 270-273: np.where evaluates both forms and picks one by the index
WhereSegment(y, x, i) ==
    IF AbsAboveThreshold(EAdd(LocalIndex(y, x, i), Fin(R(1))))
    THEN PowerLawSegment(y, x, i)
    ELSE LogSegment(y, x, i)

\* lines 275-276: trapzs[tozero] = 0.
Segment(y, x, i) ==
    IF tozero(y, x, i) THEN Fin(R(0)) ELSE WhereSegment(y, x, i)

\* With ulog10 the logarithm is uncertainties.unumpy.log10, i.e. math.log10
\* on every element, and its results are Python floats in object arrays:
\* math.log10(0.0) raises ValueError and a float division by 0.0 raises
\* ZeroDivisionError, which np.errstate does not suppress.
ULog10Raises(y, x) ==
    IF \E i \in Segments(y) : y[i + 1] = R(0) /\ y[i] # R(0)
    THEN "ValueError"
    ELSE IF \E i \in Segments(y) : x[i] = x[i + 1]
    THEN "ZeroDivisionError"
    ELSE IF \E i \in Segments(y) : LocalIndex(y, x, i) = Fin(R(-1))
    THEN "ZeroDivisionError"
    ELSE "no"

\* lines 266-276: the arrays the function computes from the samples alone
SegmentArrays(y, x) ==
    [b |-> [i \in Segments(y) |-> LocalIndex(y, x, i)],
     where |-> [i \in Segments(y) |-> WhereSegment(y, x, i)],
     trapzs |-> [i \in Segments(y) |-> Segment(y, x, i)]]

\* _trapz_loglog(y, x, intervals=..., ulog10=...), arrays being the value of
\* SegmentArrays(y, x) and raises the value of ULog10Raises(y, x)
trapz_loglog(y, yUnit, x, xUnit, intervals, ulog10, arrays, raises) ==
    LET call == [op |-> "_trapz_loglog", y |-> y, x |-> x,
                 intervals |-> intervals, ulog10 |-> ulog10]
    IN  IF ulog10 /\ raises # "no"
        THEN call @@ [outcome |-> raises, b |-> <<>>,
                      where |-> <<>>, trapzs |-> <<>>,
                      ret |-> <<>>, unit |-> <<>>]
        ELSE call @@ [outcome |-> "return", b |-> arrays.b,
                      where |-> arrays.where, trapzs |-> arrays.trapzs,
                      ret |-> IF intervals THEN arrays.trapzs
                              ELSE <<ESum(arrays.trapzs)>>,
                      unit |-> <<xUnit, yUnit>>]

TrapzIdle ==
    [op |-> "none", y |-> <<>>, x |-> <<>>, intervals |-> FALSE,
     ulog10 |-> FALSE, outcome |-> "none", b |-> <<>>, where |-> <<>>,
     trapzs |-> <<>>, ret |-> <<>>, unit |-> <<>>]

\* the calls on the samples y, x: units and keyword arguments vary
TrapzCalls(y, x, arrays, raises) ==
    \E yUnit \in YUnits, xUnit \in XUnits,
       intervals \in BOOLEAN, ulog10 \in BOOLEAN :
       trapz' = trapz_loglog(y, yUnit, x, xUnit, intervals, ulog10,
                             arrays, raises)

TrapzLogLog ==
    /\ trapz.op = "none"
    /\ \E n \in 0..MaxN :
          \E x \in {g \in [1..n -> XVals] : IsGrid(g)}, y \in [1..n -> YVals] :
             TrapzCalls(y, x, SegmentArrays(y, x), ULog10Raises(y, x))
    /\ UNCHANGED <<axis, axisCall, integ, npred>>

-----------------------------------------------------------------------------
(* integrate_spectrum, one step per statement of interest.  np.logspace is *)
(* the one of the numpy releases the code was written for: the float count *)
(* is converted with int(num), a negative count raises ValueError.         *)

\* ndecade's default value
NDecadeDefault == 100

NDecades == {1, 3, NDecadeDefault}

\* a signed decimal float: s is the sign, 0 for zero
SD(s, m, e) == [s |-> s, m |-> m, e |-> e]

BoundVals == {SD(-1, 1, 0), SD(0, 1, 0), SD(1, 1, 0), SD(1, 2, 0), SD(1, 8, 0),
              SD(1, 1, 1), SD(1, 1, 2)}

\* the bounds a caller passes: plain floats, or Quantities that are both
\* energies or both dimensionless (unit "")
BoundPairs ==
    {[kind |-> "float", xmin |-> a, xmax |-> b, minUnit |-> "", maxUnit |-> ""] :
        a \in BoundVals, b \in BoundVals}
    \cup
    {[kind |-> "Quantity", xmin |-> a, xmax |-> b, minUnit |-> "", maxUnit |-> ""] :
        a \in BoundVals, b \in BoundVals}
    \cup
    {[kind |-> "Quantity", xmin |-> a, xmax |-> b, minUnit |-> "TeV", maxUnit |-> u] :
        a \in BoundVals, b \in BoundVals, u \in Units}

\* np.log10 of a float, in thousandths of a decade: log10(0) = -inf and
\* log10 of a negative number is nan, with a warning only
Log10Signed(v) ==
    IF v.s > 0 THEN Fin(R(Log10(D(v.m, v.e))))
    ELSE IF v.s = 0 THEN Inf(-1)
    ELSE NaN

\* xmax.to(xmin.unit).value
MaxInMinUnit(b) ==
    IF b.minUnit = "" THEN b.xmax
    ELSE SD(b.xmax.s, b.xmax.m,
            b.xmax.e + UnitExp(b.maxUnit) - UnitExp(b.minUnit))

\* lines 193 and 200: n = (logmax - logmin) * ndecade
SampleCount(logmin, logmax, ndecade) ==
    EMul(ESub(logmax, logmin), Fin(<<ndecade, 1000>>))

\* int(num): truncation towards zero
Trunc(r) == IF r[1] >= 0 THEN r[1] \div r[2] ELSE -((-r[1]) \div r[2])

\* np.logspace(logmin, logmax, n), the exponents in thousandths of a decade
logspace(logmin, logmax, n) ==
    IF n.t = "nan" THEN Raise("ValueError")
    ELSE IF n.t = "inf" THEN Raise("OverflowError")
    ELSE IF Trunc(n.r) < 0 THEN Raise("ValueError")
    ELSE LET num == Trunc(n.r)
             step == RDiv(RSub(logmax.r, logmin.r), R(num - 1))
         IN  Return([i \in 1..num |->
                        IF i = 1 THEN Pow10(logmin.r)
                        ELSE IF i = num THEN Pow10(logmax.r)
                        ELSE Pow10(RAdd(logmin.r, RMul(R(i - 1), step)))])

\* what one evaluation of the caller's func may do
FuncOutcomes == {"return", "AttributeError", "OtherError"}

IntegIdle ==
    [pc |-> "none", bounds |-> <<>>, ndecade |-> 0, n |-> NaN, x |-> <<>>,
     funcCalls |-> <<>>, trapzCalls |-> <<>>, exceptEntered |-> FALSE,
     outcome |-> "none"]

\* integrate_spectrum(func, xmin, xmax, ndecade)
IntegrateSpectrum ==
    /\ integ.pc = "none"
    /\ \E b \in BoundPairs, ndecade \in NDecades :
          integ' = [integ EXCEPT !.pc = "try", !.bounds = b, !.ndecade = ndecade]
    /\ UNCHANGED <<axis, axisCall, trapz, npred>>

\* lines 191-194: a float has no attribute `value`; else the grid is built
TryGrid ==
    /\ integ.pc = "try"
    /\ IF integ.bounds.kind = "float"
       THEN integ' = [integ EXCEPT !.pc = "except", !.exceptEntered = TRUE]
       ELSE LET logmin == Log10Signed(integ.bounds.xmin)
                logmax == Log10Signed(MaxInMinUnit(integ.bounds))
                n == SampleCount(logmin, logmax, integ.ndecade)
                x == logspace(logmin, logmax, n)
            IN  IF x.outcome = "return"
                THEN integ' = [integ EXCEPT !.pc = "func_unit", !.n = n,
                                            !.x = x.ret]
                ELSE integ' = [integ EXCEPT !.pc = "raised", !.n = n,
                                            !.outcome = x.outcome]
    /\ UNCHANGED <<axis, axisCall, trapz, npred>>

\* line 195, inside the try block: an AttributeError of func is caught
FuncUnit ==
    /\ integ.pc = "func_unit"
    /\ \E o \in FuncOutcomes :
          integ' = [integ EXCEPT
              !.funcCalls = Append(@, [line |-> 195, grid |-> integ.x]),
              !.pc = IF o = "return" THEN "trapz_unit"
                     ELSE IF o = "AttributeError" THEN "except" ELSE "raised",
              !.exceptEntered = (o = "AttributeError"),
              !.outcome = IF o = "OtherError" THEN o ELSE @]
    /\ UNCHANGED <<axis, axisCall, trapz, npred>>

\* lines 196 and 205: the unit-aware integration, and the return
TrapzUnit ==
    /\ integ.pc = "trapz_unit"
    /\ integ' = [integ EXCEPT
           !.trapzCalls = Append(@, [line |-> 196, ulog10 |-> FALSE]),
           !.pc = "done", !.outcome = "return"]
    /\ UNCHANGED <<axis, axisCall, trapz, npred>>

\* lines 198-201: np.log10 of a Quantity raises TypeError unless the
\* Quantity is dimensionless
ExceptGrid ==
    /\ integ.pc = "except"
    /\ IF integ.bounds.kind = "Quantity" /\ integ.bounds.minUnit # ""
       THEN integ' = [integ EXCEPT !.pc = "raised", !.outcome = "TypeError"]
       ELSE LET logmin == Log10Signed(integ.bounds.xmin)
                logmax == Log10Signed(integ.bounds.xmax)
                n == SampleCount(logmin, logmax, integ.ndecade)
                x == logspace(logmin, logmax, n)
            IN  IF x.outcome = "return"
                THEN integ' = [integ EXCEPT !.pc = "func_plain", !.n = n,
                                            !.x = x.ret]
                ELSE integ' = [integ EXCEPT !.pc = "raised", !.n = n,
                                            !.outcome = x.outcome]
    /\ UNCHANGED <<axis, axisCall, trapz, npred>>

\* line 202, outside the try block: every error of func propagates
FuncPlain ==
    /\ integ.pc = "func_plain"
    /\ \E o \in FuncOutcomes :
          integ' = [integ EXCEPT
              !.funcCalls = Append(@, [line |-> 202, grid |-> integ.x]),
              !.pc = IF o = "return" THEN "trapz_plain" ELSE "raised",
              !.outcome = IF o = "return" THEN @ ELSE o]
    /\ UNCHANGED <<axis, axisCall, trapz, npred>>

\* lines 203 and 205: the integration with ulog10=True, which raises on a
\* zero sample or a repeated abscissa (ULog10Raises), and the return
TrapzPlain ==
    /\ integ.pc = "trapz_plain"
    /\ \E o \in {"return", "ValueError", "ZeroDivisionError"} :
          integ' = [integ EXCEPT
              !.trapzCalls = Append(@, [line |-> 203, ulog10 |-> TRUE]),
              !.pc = IF o = "return" THEN "done" ELSE "raised",
              !.outcome = o]
    /\ UNCHANGED <<axis, axisCall, trapz, npred>>

-----------------------------------------------------------------------------
(* calculate_predicted_counts and the collaborators it calls.  The         *)
(* effective-area table, the energy dispersion, the spectral model and the *)
(* counts container are not part of utils.py; they follow their contracts. *)

\* most true-energy bins of an effective-area table
MaxBins == 2
\* most bin edges of a reconstructed-energy axis passed by the caller
MaxReco == 3

\* the edges of n bins: 0, 1, ..., n
Edges(n) == [i \in 1..(n + 1) |-> i - 1]

AreaVals == {NaN, Fin(R(1)), Fin(R(2))}
FluxVals == {Fin(R(0)), Fin(R(1)), Fin(R(3))}

\* EffectiveAreaTable.evaluate(fill_nan): the per-bin areas, with the nan
\* of the bins outside the calibrated range replaced by 0 when asked
evaluate(aeff, fill_nan) ==
    [i \in DOMAIN aeff.data |->
        IF fill_nan /\ aeff.data[i].t = "nan" THEN Fin(R(0)) ELSE aeff.data[i]]

\* the factor that converts flux * livetime * area to a pure number, and 0
\* when the product of the units is not dimensionless
ToDimensionless(fluxUnit, livetimeUnit, aeffUnit) ==
    IF fluxUnit # "cm-2 s-1" \/ aeffUnit # "cm2" THEN 0
    ELSE IF livetimeUnit = "h" THEN 3600 ELSE 1

RECURSIVE SumOver(_, _)
SumOver(f, S) ==
    IF S = {} THEN Fin(R(0))
    ELSE LET i == CHOOSE k \in S : \A j \in S : k <= j
         IN  EAdd(f[i], SumOver(f, S \ {i}))

\* EnergyDispersion.apply(counts, e_reco): the matrix fold onto the
\* provider's reconstructed-energy bins, re-binned onto e_reco when one is
\* given (a new bin collects the provider's bins that lie inside it)
apply(edisp, counts, e_reco) ==
    LET folded == [j \in 1..(Len(edisp.e_reco) - 1) |->
                      SumOver([i \in DOMAIN counts |->
                                  EMul(counts[i], Fin(R(edisp.matrix[i][j])))],
                              DOMAIN counts)]
    IN  IF e_reco.kind = "None" THEN folded
        ELSE [k \in 1..(Len(e_reco.data) - 1) |->
                 SumOver(folded,
                         {j \in DOMAIN folded :
                             /\ e_reco.data[k] <= edisp.e_reco[j]
                             /\ edisp.e_reco[j + 1] <= e_reco.data[k + 1]})]

\* bool(e_reco), as `or` takes it: None is false; a Quantity is true
\* (Quantity.__bool__ of the astropy releases of the time returns True,
\* later releases raise ValueError); a numpy array is false when empty,
\* has its element's truth when of size 1 and raises ValueError otherwise
Truth(e_reco) ==
    IF e_reco.kind = "None" THEN "False"
    ELSE IF e_reco.kind = "Quantity" THEN "True"
    ELSE IF Len(e_reco.data) = 0 THEN "False"
    ELSE IF Len(e_reco.data) = 1
         THEN (IF e_reco.data[1] = 0 THEN "False" ELSE "True")
    ELSE "ValueError"

\* line 165 without the request to fill
AeffValuesUnfilled(aeff) == evaluate(aeff, FALSE)

\* line 165: aeff.evaluate(fill_nan=True)
AeffValues(aeff) == evaluate(aeff, TRUE)

NpredRecord(outcome, counts, foldArg, reco_counts, energy) ==
    [outcome |-> outcome, counts |-> counts, foldArg |-> foldArg,
     data |-> reco_counts, energy |-> energy]

NoneAxis == [kind |-> "None", data |-> <<>>]

\* calculate_predicted_counts(model, aeff, edisp, livetime, e_reco); the
\* model enters through the flux its integral method returns
calculate_predicted_counts(flux, aeff, edisp, livetime, e_reco) ==
    LET scale == ToDimensionless(flux.unit, livetime.unit, aeff.unit)
        area == AeffValues(aeff)
        counts == [i \in DOMAIN flux.data |->
                      EMul(EMul(EMul(flux.data[i], Fin(R(livetime.value))),
                                area[i]),
                           Fin(R(scale)))]
        reco_counts == apply(edisp, counts, e_reco)
    IN  IF scale = 0
        THEN NpredRecord("UnitConversionError", <<>>, NoneAxis, <<>>, <<>>)
        ELSE IF Truth(e_reco) = "ValueError"
        THEN NpredRecord("ValueError", counts, e_reco, <<>>, <<>>)
        ELSE NpredRecord("return", counts, e_reco, reco_counts,
                         IF Truth(e_reco) = "True" THEN e_reco.data
                         ELSE edisp.e_reco)

RecoAxes ==
    {NoneAxis}
    \cup {[kind |-> k, data |-> d] :
            k \in {"Quantity", "ndarray"},
            d \in {s \in UNION {[1..n -> 0..2] : n \in 0..MaxReco} :
                      \A i \in 1..(Len(s) - 1) : s[i] < s[i + 1]}}

\* the responses of the energy dispersion: diagonal, or spread over all bins
Matrices(nb) ==
    {[i \in 1..nb |-> [j \in 1..2 |-> IF j = 2 - (i % 2) THEN 1 ELSE 0]],
     [i \in 1..nb |-> [j \in 1..2 |-> 1]]}

NpredIdle ==
    [op |-> "none", flux |-> <<>>, aeff |-> <<>>, edisp |-> <<>>,
     livetime |-> <<>>, e_reco |-> NoneAxis, outcome |-> "none",
     counts |-> <<>>, foldArg |-> NoneAxis, data |-> <<>>, energy |-> <<>>]

CalculatePredictedCounts ==
    /\ npred.op = "none"
    /\ \E nb \in 1..MaxBins :
       \E fluxData \in [1..nb -> FluxVals], aeffData \in [1..nb -> AreaVals],
          fluxUnit \in {"cm-2 s-1", "cm-2 s-1 TeV-1"},
          aeffUnit \in {"cm2", "cm"}, livetimeUnit \in {"s", "h"},
          matrix \in Matrices(nb), e_reco \in RecoAxes :
          LET flux == [data |-> fluxData, unit |-> fluxUnit]
              aeff == [energy |-> Edges(nb), data |-> aeffData, unit |-> aeffUnit]
              edisp == [e_reco |-> Edges(2), matrix |-> matrix]
              livetime == [value |-> 2, unit |-> livetimeUnit]
          IN  npred' = [op |-> "calculate_predicted_counts", flux |-> flux,
                        aeff |-> aeff, edisp |-> edisp, livetime |-> livetime,
                        e_reco |-> e_reco]
                       @@ calculate_predicted_counts(flux, aeff, edisp,
                                                     livetime, e_reco)
    /\ UNCHANGED <<axis, axisCall, trapz, integ>>

-----------------------------------------------------------------------------
(* Specifications *)


InitAxis ==
    /\ AxisInit
    /\ trapz = TrapzIdle
    /\ integ = IntegIdle
    /\ npred = NpredIdle

NextAxis ==
    \/ World2Pix
    \/ Pix2World
    \/ Pix2WorldOfWorld2Pix
    \/ ClosestPoint
    \/ BinEdges

SpecAxis == InitAxis /\ [][NextAxis]_vars

NoAxis == [energy |-> [value |-> <<>>, unit |-> "TeV"], x |-> <<>>, pix |-> <<>>]

InitTrapz ==
    /\ axis = NoAxis
    /\ axisCall = NoAxisCall
    /\ trapz = TrapzIdle
    /\ integ = IntegIdle
    /\ npred = NpredIdle

NextTrapz == TrapzLogLog

SpecTrapz == InitTrapz /\ [][NextTrapz]_vars

InitIntegrate ==
    /\ axis = NoAxis
    /\ axisCall = NoAxisCall
    /\ trapz = TrapzIdle
    /\ integ = IntegIdle
    /\ npred = NpredIdle

NextIntegrate ==
    \/ IntegrateSpectrum
    \/ TryGrid
    \/ FuncUnit
    \/ TrapzUnit
    \/ ExceptGrid
    \/ FuncPlain
    \/ TrapzPlain

SpecIntegrate == InitIntegrate /\ [][NextIntegrate]_vars

InitCounts ==
    /\ axis = NoAxis
    /\ axisCall = NoAxisCall
    /\ trapz = TrapzIdle
    /\ integ = IntegIdle
    /\ npred = NpredIdle

NextCounts == CalculatePredictedCounts

SpecCounts == InitCounts /\ [][NextCounts]_vars


-----------------------------------------------------------------------------
(* Properties of LogEnergyAxis, checked under SpecAxis *)

\* the query energies of the recorded call, in the axis unit
QueryInAxisUnit == To(axisCall.energy, axis.energy.unit).value

TableLen == Len(axis.energy.value)

\* the highest 0-based table index whose energy is at most q
HighestIndexLeq(q) ==
    CHOOSE i \in 0..(TableLen - 1) :
        /\ DLeq(axis.energy.value[i + 1], q)
        /\ \A k \in (i + 1)..(TableLen - 1) : DLess(q, axis.energy.value[k + 1])

\* C1: for every query energy q with E[0] <= q < E[n-1], scalar or element
\* of an array, bin_edges returns (i, i+1, E[i], E[i+1]) with i the highest
\* index such that E[i] <= q.
C1_BinEdgesReturnsBin ==
    (/\ axisCall.op = "bin_edges"
     /\ \A j \in DOMAIN QueryInAxisUnit :
           /\ DLeq(axis.energy.value[1], QueryInAxisUnit[j])
           /\ DLess(QueryInAxisUnit[j], axis.energy.value[TableLen]))
    => /\ axisCall.outcome = "return"
       /\ \A j \in DOMAIN QueryInAxisUnit :
             LET i == HighestIndexLeq(QueryInAxisUnit[j])
             IN  /\ axisCall.ret.pix1[j] = i
                 /\ axisCall.ret.pix2[j] = i + 1
                 /\ axisCall.ret.energy1[j] = axis.energy.value[i + 1]
                 /\ axisCall.ret.energy2[j] = axis.energy.value[i + 2]

\* C2: world2pix never extrapolates: a query below E[0] yields pixel 0, a
\* query above E[n-1] yields pixel n-1, and every pixel lies in [0, n-1].
C2_World2PixClamps ==
    axisCall.op = "world2pix"
    => \A j \in DOMAIN QueryInAxisUnit :
          /\ DLess(QueryInAxisUnit[j], axis.energy.value[1])
                => axisCall.ret[j] = R(0)
          /\ DLess(axis.energy.value[TableLen], QueryInAxisUnit[j])
                => axisCall.ret[j] = R(TableLen - 1)
          /\ RLeq(R(0), axisCall.ret[j])
          /\ RLeq(axisCall.ret[j], R(TableLen - 1))

\* one call with a query below and a query above a table of several entries
C2_Witness ==
    /\ axisCall.op = "world2pix"
    /\ TableLen >= 3
    /\ DLess(axis.energy.value[1], axis.energy.value[TableLen])
    /\ \E j \in DOMAIN QueryInAxisUnit :
          /\ DLess(QueryInAxisUnit[j], axis.energy.value[1])
          /\ axisCall.ret[j] = R(0)
    /\ \E j \in DOMAIN QueryInAxisUnit :
          /\ DLess(axis.energy.value[TableLen], QueryInAxisUnit[j])
          /\ axisCall.ret[j] = R(TableLen - 1)

\* C3: for every table energy E[i], pix2world(world2pix(E[i])) is E[i] in
\* the axis unit, whatever unit the query was given in.
C3_RoundTripAtNodes ==
    (axisCall.op = "pix2world" /\ axisCall.energy.shape # "none")
    => /\ axisCall.ret.unit = axis.energy.unit
       /\ \A j \in DOMAIN QueryInAxisUnit :
             (\E i \in 1..TableLen : axis.energy.value[i] = QueryInAxisUnit[j])
             => axisCall.ret.value[j] = QueryInAxisUnit[j]

\* the spec's example, E = [1, 10, 100] TeV: world2pix([10]) = [1.0] and
\* pix2world([1.0]) = [10] TeV; here the query is given as 10000 GeV
C3_Witness ==
    /\ axis.energy = [value |-> <<D(1, 0), D(1, 1), D(1, 2)>>, unit |-> "TeV"]
    /\ axisCall.op = "pix2world"
    /\ axisCall.energy = [shape |-> "array", value |-> <<D(1, 4)>>, unit |-> "GeV"]
    /\ axisCall.pix = <<R(1)>>
    /\ axisCall.ret = [value |-> <<D(1, 1)>>, unit |-> "TeV"]

-----------------------------------------------------------------------------
(* Properties of _trapz_loglog, checked under SpecTrapz *)

\* C4: every segment with y[i] = 0 or y[i+1] = 0 or x[i] = x[i+1] has the
\* per-segment integral exactly 0, whatever the formulas produced, and the
\* call completes without raising.
C4_DegenerateSegmentsAreZero ==
    (/\ trapz.op = "_trapz_loglog"
     /\ \E i \in Segments(trapz.y) :
           \/ trapz.y[i] = R(0)
           \/ trapz.y[i + 1] = R(0)
           \/ trapz.x[i] = trapz.x[i + 1])
    => /\ trapz.outcome = "return"
       /\ \A i \in Segments(trapz.y) :
             (\/ trapz.y[i] = R(0)
              \/ trapz.y[i + 1] = R(0)
              \/ trapz.x[i] = trapz.x[i + 1])
             => trapz.trapzs[i] = Fin(R(0))

\* q ** k for q a power of two and k a rational with an integral result
RPow(q, k) == Pow2(RMul(R(Log2(q)), k)[1])

IsPowerLaw(y, x, k) ==
    \A i \in DOMAIN x :
        /\ RMul(R(Log2(x[i])), k)[2] = 1
        /\ y[i] = RPow(x[i], k)

\* a grid x[0] < ... < x[n-1] with a constant ratio between neighbours
IsLogSpaced(x) ==
    /\ Len(x) >= 2
    /\ \A i \in 1..(Len(x) - 1) :
          /\ RLess(x[i], x[i + 1])
          /\ RDiv(x[i + 1], x[i]) = RDiv(x[2], x[1])

Exponents == {Norm(n, d) : n \in -4..4, d \in 1..2} \ {R(-1)}

\* C5: for y = x^k with k # -1 on a log-spaced grid from a to b, every
\* segment has local index k and takes the power-law form, and the summed
\* result is (b^(k+1) - a^(k+1)) / (k+1).
C5_PowerLawExact ==
    \A k \in Exponents :
        (/\ trapz.op = "_trapz_loglog"
         /\ ~trapz.intervals
         /\ IsLogSpaced(trapz.x)
         /\ IsPowerLaw(trapz.y, trapz.x, k))
        => /\ trapz.outcome = "return"
           /\ \A i \in Segments(trapz.y) :
                 /\ trapz.b[i] = Fin(k)
                 /\ trapz.trapzs[i] = PowerLawSegment(trapz.y, trapz.x, i)
           /\ trapz.ret =
                 <<Fin(RDiv(RSub(RPow(trapz.x[Len(trapz.x)], RAdd(k, R(1))),
                                 RPow(trapz.x[1], RAdd(k, R(1)))),
                            RAdd(k, R(1))))>>

\* y = x on the grid 1, 2, 4: the integral is (4^2 - 1^2) / 2
C5_Witness ==
    /\ trapz.op = "_trapz_loglog"
    /\ trapz.x = <<R(1), R(2), R(4)>>
    /\ trapz.y = <<R(1), R(2), R(4)>>
    /\ trapz.ulog10
    /\ trapz.ret = <<Fin(<<15, 2>>)>>

-----------------------------------------------------------------------------
(* Properties of integrate_spectrum, checked under SpecIntegrate *)

Called == integ.pc # "none"

\* the bounds as positive decimals in xmin's unit
XMin == D(integ.bounds.xmin.m, integ.bounds.xmin.e)
XMax == D(MaxInMinUnit(integ.bounds).m, MaxInMinUnit(integ.bounds).e)

ValidBounds ==
    /\ integ.bounds.xmin.s > 0
    /\ integ.bounds.xmax.s > 0
    /\ DLess(XMin, XMax)

\* C6: a call with xmin <= 0 or xmax <= 0 or xmax <= xmin ends in an error
\* before func is evaluated and never returns an integral.
C6_InvalidBoundsRejected ==
    (Called /\ ~ValidBounds)
    => /\ integ.funcCalls = <<>>
       /\ integ.pc # "done"

\* round(n) for n >= 0
Round(r) == (2 * r[1] + r[2]) \div (2 * r[2])

\* C7: for 0 < xmin < xmax func is evaluated on a grid of exactly
\* round((log10(xmax) - log10(xmin)) * ndecade) points, the first xmin and
\* the last xmax, on the unit-tagged and on the plain path.
C7_GridSizeAndEnds ==
    (Called /\ ValidBounds)
    => \A c \in DOMAIN integ.funcCalls :
          LET grid == integ.funcCalls[c].grid
          IN  /\ Len(grid) =
                    Round(SampleCount(Fin(R(Log10(XMin))), Fin(R(Log10(XMax))),
                                      integ.ndecade).r)
              /\ Len(grid) >= 1
              /\ grid[1] = XMin
              /\ grid[Len(grid)] = XMax

\* C10: with unit-tagged bounds func is evaluated at most once, only by the
\* unit-aware path, and the plain path (the except block, ulog10=True) is
\* never entered, whatever func does; with plain floats a call that returns
\* has evaluated func exactly once, on the plain path, and integrated with
\* ulog10=True.
C10_ExactlyOnePath ==
    Called
    => /\ Len(integ.funcCalls) <= 1
       /\ integ.bounds.kind = "Quantity"
             => /\ ~integ.exceptEntered
                /\ \A c \in DOMAIN integ.funcCalls :
                      integ.funcCalls[c].line = 195
                /\ \A c \in DOMAIN integ.trapzCalls :
                      ~integ.trapzCalls[c].ulog10
       /\ (integ.bounds.kind = "float" /\ integ.pc = "done")
             => /\ Len(integ.funcCalls) = 1
                /\ integ.funcCalls[1].line = 202
                /\ integ.trapzCalls = <<[line |-> 203, ulog10 |-> TRUE]>>

-----------------------------------------------------------------------------
(* Properties of calculate_predicted_counts, checked under SpecCounts *)

NoNaN(v) == \A i \in DOMAIN v : v[i].t # "nan"

\* C8: when the raw effective area has nan in some bin, the areas are
\* zero-filled before the multiplication, so neither the counts handed to
\* edisp.apply nor the predicted counts of the result contain nan.
C8_NoNaNAfterFill ==
    (/\ npred.op = "calculate_predicted_counts"
     /\ ~NoNaN(npred.aeff.data))
    => /\ NoNaN(npred.counts)
       /\ NoNaN(npred.data)

\* a call that returns counts although one bin of the area was nan
C8_Witness ==
    /\ npred.op = "calculate_predicted_counts"
    /\ npred.outcome = "return"
    /\ npred.aeff.data = <<NaN, Fin(R(2))>>
    /\ npred.flux.data = <<Fin(R(3)), Fin(R(1))>>
    /\ npred.counts = <<Fin(R(0)), Fin(R(4))>>
    /\ npred.e_reco.kind = "None"
    /\ npred.data = <<Fin(R(0)), Fin(R(4))>>

\* C9: unless the units fail to convert, the call returns a container built
\* with the caller's e_reco when one is given and with the provider's
\* default axis otherwise, and the fold received the same choice.
C9_OutputAxis ==
    (/\ npred.op = "calculate_predicted_counts"
     /\ npred.outcome # "UnitConversionError")
    => /\ npred.outcome = "return"
       /\ npred.foldArg = npred.e_reco
       /\ npred.energy = IF npred.e_reco.kind = "None"
                         THEN npred.edisp.e_reco
                         ELSE npred.e_reco.data

=============================================================================
